---- MODULE Spec2Model ----
(***************************************************************************)
(* Model of src/server/main.py: the sandboxed file-operation functions     *)
(* (list_files, read_file, write_file, delete_file, copy_file, move_file,  *)
(* create_directory, search_files, get_file_info), the path guard          *)
(* (is_safe_path / get_safe_path) and the process-wide configuration       *)
(* (config_manager.config, update_config), over a small POSIX file tree.   *)
(*                                                                         *)
(* A path is a sequence of components, as pathlib's Path.parts: absolute   *)
(* paths start with "/", Path(".") is the empty sequence and ".." is kept  *)
(* as a component until resolve() removes it.                              *)
(***************************************************************************)
EXTENDS Integers, Sequences, FiniteSets, TLC

VARIABLES
    fs,        \* the file tree: resolved absolute path -> node
    config,    \* config_manager.config (the fields the operations read)
    call,      \* the last call made: operation name and arguments
    result,    \* what that call returned (or raised) to its caller
    pre,       \* the file tree as it was when the last call began
    steps,     \* number of calls made so far
    clock,     \* int(time.time()): the wall clock in whole seconds
    inflight,  \* a call running in a second thread: its position and locals
    notify     \* the notification server: push clients and their registry

vars == <<fs, config, call, result, pre, steps, clock, inflight, notify>>

\* what the file operations of the single-threaded interface leave alone
others == <<clock, inflight, notify>>

----------------------------------------------------------------------------
(* Bounds *)

MaxSteps == 2

----------------------------------------------------------------------------
(* Paths *)

Root == <<"/">>

\* os.getcwd(): main() never changes directory, and the default --workspace
\* "." makes the workspace the directory the process was started in.
cwd == <<"/", "ws">>

IsAbs(p) == Len(p) > 0 /\ p[1] = "/"

Front(p) == SubSeq(p, 1, Len(p) - 1)

\* dirname of a resolved path; the parent of "/" is "/".
Parent(p) == IF Len(p) <= 1 THEN p ELSE Front(p)

IsPrefix(a, b) == Len(a) <= Len(b) /\ SubSeq(b, 1, Len(a)) = a

----------------------------------------------------------------------------
(* File tree *)

DirNode == [kind |-> "dir", data |-> <<>>, target |-> <<>>]
FileNode(bytes) == [kind |-> "file", data |-> bytes, target |-> <<>>]
LinkNode(t) == [kind |-> "link", data |-> <<>>, target |-> t]

\* The tree the process starts in: the workspace /ws with a file, a
\* directory holding a file, and a symlink that points out of the workspace;
\* /out is a directory outside the workspace.
InitFs ==
    (Root :> DirNode)
    @@ (<<"/", "ws">> :> DirNode)
    @@ (<<"/", "ws", "a">> :> FileNode(<<195, 169>>))
    @@ (<<"/", "ws", "d">> :> DirNode)
    @@ (<<"/", "ws", "d", "b">> :> FileNode(<<120>>))
    @@ (<<"/", "ws", "l">> :> LinkNode(<<"/", "out">>))
    @@ (<<"/", "out">> :> DirNode)
    @@ (<<"/", "out", "s">> :> FileNode(<<255>>))

Children(f, dir) == {p \in DOMAIN f : Len(p) = Len(dir) + 1 /\ Front(p) = dir}

Subtree(f, p) == {q \in DOMAIN f : IsPrefix(p, q)}

Remove(f, gone) == [q \in (DOMAIN f) \ gone |-> f[q]]

Put(f, p, node) == (p :> node) @@ f

\* posixpath._joinrealpath (non-strict): walk the components left to
\* right from the resolved prefix cur; ".." drops the last resolved
\* component, a symlink is replaced by its resolved target, and a component
\* that does not exist is appended as it is.
RECURSIVE joinrealpath(_, _, _)
joinrealpath(f, cur, rest) ==
    IF rest = <<>> THEN cur
    ELSE LET name == Head(rest)
             newpath == Append(cur, name)
         IN  IF name = ".." THEN joinrealpath(f, Parent(cur), Tail(rest))
             ELSE IF newpath \in DOMAIN f /\ f[newpath].kind = "link"
                  THEN joinrealpath(f,
                           joinrealpath(f, Root, Tail(f[newpath].target)),
                           Tail(rest))
                  ELSE joinrealpath(f, newpath, Tail(rest))

\* Path(p).resolve() raises (FileNotFoundError from os.getcwd()) when p is
\* relative and the working directory has been removed.
resolve_raises(f, p) == ~IsAbs(p) /\ cwd \notin DOMAIN f

\* Path(p).resolve()
resolve(f, p) ==
    IF IsAbs(p) THEN joinrealpath(f, Root, Tail(p))
    ELSE joinrealpath(f, cwd, p)

\* PurePath.is_relative_to / relative_to: a comparison of components, with
\* no access to the file tree; a relative and an absolute path never match.
is_relative_to(self, other) ==
    IsAbs(self) = IsAbs(other) /\ IsPrefix(other, self)

exists(f, p) == resolve(f, p) \in DOMAIN f
is_file(f, p) == exists(f, p) /\ f[resolve(f, p)].kind = "file"
is_dir(f, p) == exists(f, p) /\ f[resolve(f, p)].kind = "dir"

----------------------------------------------------------------------------
(* Security utilities *)

\* os.path.normpath of an absolute path: ".." dropped by text alone
RECURSIVE normpath(_, _)
normpath(cur, rest) ==
    IF rest = <<>> THEN cur
    ELSE IF Head(rest) = ".." THEN normpath(Parent(cur), Tail(rest))
    ELSE normpath(Append(cur, Head(rest)), Tail(rest))

\* os.path.abspath
abspath(p) == IF IsAbs(p) THEN normpath(Root, Tail(p)) ELSE normpath(cwd, p)

\* is_safe_path had it compared os.path.abspath of the two paths, which
\* does not follow symlinks
is_safe_path_abspath(f, path, workspace) ==
    IF resolve_raises(f, workspace) \/ resolve_raises(f, path) THEN FALSE
    ELSE is_relative_to(abspath(path), abspath(workspace))

is_safe_path(f, path, workspace) ==
    IF resolve_raises(f, workspace) \/ resolve_raises(f, path) THEN FALSE
    ELSE is_relative_to(resolve(f, path), resolve(f, workspace))

\* get_safe_path had it resolved the path without the containment check
get_safe_path_unchecked(f, path, workspace) ==
    [raised |-> FALSE, path |-> resolve(f, path)]

get_safe_path(f, path, workspace) ==
    IF ~is_safe_path(f, path, workspace)
    THEN [raised |-> TRUE, path |-> <<>>]
    ELSE [raised |-> FALSE, path |-> resolve(f, path)]

----------------------------------------------------------------------------
(* Results *)

NoPayload == [content |-> <<>>, type |-> "", size |-> 0]

\* a returned dictionary with the operation's payload
Success(payload) == [kind |-> "success", err |-> ""] @@ payload

\* an explicit `return {"error": ...}`
Failure(msg) == [kind |-> "error", err |-> msg] @@ NoPayload

\* an exception raised inside the operation's try block
Raise(exc) == [kind |-> "raised", err |-> exc] @@ NoPayload

\* an operation without its exception handler
Catch_nothing(res) == res

\* `except Exception as e: return {"error": str(e)}`, the handler that
\* closes every operation
Catch(res) ==
    IF res.kind = "raised" THEN [res EXCEPT !.kind = "error"] ELSE res

----------------------------------------------------------------------------
(* Text encoding *)

\* str.encode("utf-8") of one character
encode_char(c) ==
    CASE c = "x" -> <<120>>
      [] c = "e_acute" -> <<195, 169>>
      [] c = "CR" -> <<13>>
      [] c = "LF" -> <<10>>

RECURSIVE encode(_)
encode(text) ==
    IF text = <<>> THEN <<>> ELSE encode_char(Head(text)) \o encode(Tail(text))

\* bytes.decode("utf-8"): ok is FALSE where UnicodeDecodeError is raised
RECURSIVE decode(_)
decode(bytes) ==
    IF bytes = <<>> THEN [ok |-> TRUE, text |-> <<>>]
    ELSE LET b == Head(bytes) IN
         IF b \in {120, 13, 10}
         THEN LET r == decode(Tail(bytes))
                  c == CASE b = 120 -> "x" [] b = 13 -> "CR" [] b = 10 -> "LF"
              IN  [ok |-> r.ok, text |-> <<c>> \o r.text]
         ELSE IF b = 195 /\ Len(bytes) >= 2 /\ bytes[2] = 169
         THEN LET r == decode(SubSeq(bytes, 3, Len(bytes)))
              IN  [ok |-> r.ok, text |-> <<"e_acute">> \o r.text]
         ELSE [ok |-> FALSE, text |-> <<>>]

\* reading in text mode with newline=None: "\r\n" and "\r" become "\n"
RECURSIVE universal_newlines(_)
universal_newlines(text) ==
    IF text = <<>> THEN <<>>
    ELSE IF Head(text) = "CR"
    THEN IF Len(text) >= 2 /\ text[2] = "LF"
         THEN <<"LF">> \o universal_newlines(SubSeq(text, 3, Len(text)))
         ELSE <<"LF">> \o universal_newlines(Tail(text))
    ELSE <<Head(text)>> \o universal_newlines(Tail(text))

\* codecs.lookup(encoding) succeeds
known_encoding(encoding) == encoding = "utf-8"

----------------------------------------------------------------------------
(* Filesystem primitives used by the operations.  Each returns the new    *)
(* tree and the name of the exception it raised ("" when it raised none). *)

Done(f) == [fs |-> f, exc |-> ""]
Fails(f, e) == [fs |-> f, exc |-> e]

\* os.mkdir(p): EEXIST when p is there, ENOTDIR when a component of its
\* parent is a file, ENOENT when the parent is missing.
os_mkdir(f, p) ==
    IF p \in DOMAIN f THEN Fails(f, "FileExistsError")
    ELSE IF \E k \in 1..(Len(p) - 1) :
                SubSeq(p, 1, k) \in DOMAIN f /\ f[SubSeq(p, 1, k)].kind = "file"
         THEN Fails(f, "NotADirectoryError")
    ELSE IF Parent(p) \notin DOMAIN f THEN Fails(f, "FileNotFoundError")
    ELSE Done(Put(f, p, DirNode))

\* Path.mkdir(parents=..., exist_ok=...); os.makedirs(p, exist_ok=...) is
\* mkdir(f, p, TRUE, exist_ok).
RECURSIVE mkdir(_, _, _, _)
mkdir(f, p, parents, exist_ok) ==
    LET r == os_mkdir(f, p) IN
    IF r.exc = "" THEN r
    ELSE IF r.exc = "FileNotFoundError"
    THEN IF ~parents \/ Parent(p) = p THEN r
         ELSE LET up == mkdir(f, Parent(p), TRUE, TRUE) IN
              IF up.exc # "" THEN up ELSE mkdir(up.fs, p, FALSE, exist_ok)
    ELSE IF ~exist_ok \/ ~is_dir(f, p) THEN r
    ELSE Done(f)

\* shutil.rmtree(p): p and everything below it; symlinks below p are
\* removed, not followed.
rmtree(f, p) == Remove(f, Subtree(f, p))

\* Path.unlink()
unlink(f, p) == Remove(f, {p})

\* os.path.basename
basename(p) == p[Len(p)]

\* shutil.copy2(src, dst) of a regular file src: into dst when dst is a
\* directory, over dst otherwise.
copy2(f, src, dst) ==
    LET real == IF is_dir(f, dst) THEN Append(resolve(f, dst), basename(src))
                ELSE resolve(f, dst)
    IN  IF real = resolve(f, src) THEN Fails(f, "SameFileError")
        ELSE IF real \in DOMAIN f /\ f[real].kind = "dir"
        THEN Fails(f, "IsADirectoryError")
        ELSE IF \E k \in 1..(Len(real) - 1) :
                    SubSeq(real, 1, k) \in DOMAIN f
                    /\ f[SubSeq(real, 1, k)].kind = "file"
        THEN Fails(f, "NotADirectoryError")
        ELSE IF Parent(real) \notin DOMAIN f THEN Fails(f, "FileNotFoundError")
        ELSE Done(Put(f, real, FileNode(f[resolve(f, src)].data)))

\* shutil.copytree(src, dst, dirs_exist_ok=...) with symlinks=False: the
\* entries of src are listed, dst is created, and each entry is copied
\* with symlinks followed; an entry that fails is skipped and shutil.Error
\* is raised once every entry has been tried.
RECURSIVE copytree(_, _, _, _)
RECURSIVE copy_entries(_, _, _, _, _)
copy_entries(f, entries, dst, dirs_exist_ok, failed) ==
    IF entries = {} THEN
        IF failed THEN Fails(f, "shutil.Error") ELSE Done(f)
    ELSE LET e == CHOOSE x \in entries : TRUE
             to == Append(dst, basename(e))
             r == IF ~exists(f, e) THEN Fails(f, "FileNotFoundError")
                  ELSE IF is_dir(f, e)
                  THEN copytree(f, resolve(f, e), to, dirs_exist_ok)
                  ELSE copy2(f, resolve(f, e), to)
         IN  copy_entries(r.fs, entries \ {e}, dst, dirs_exist_ok,
                          failed \/ r.exc # "")

copytree(f, src, dst, dirs_exist_ok) ==
    LET entries == Children(f, src)
        made == mkdir(f, dst, TRUE, dirs_exist_ok)
    IN  IF made.exc # "" THEN made
        ELSE copy_entries(made.fs, entries, dst, dirs_exist_ok, FALSE)

\* os.rename(src, dst) once it is known to succeed: the subtree at src is
\* re-rooted at dst, replacing a file that was there.
rename(f, src, dst) ==
    LET moved == Subtree(f, src)
        kept == Remove(f, moved \cup {dst})
    IN  [q \in {dst \o SubSeq(m, Len(src) + 1, Len(m)) : m \in moved} |->
            f[src \o SubSeq(q, Len(dst) + 1, Len(q))]] @@ kept

\* shutil.move(src, dst): src and dst are resolved paths and src exists.
\* A destination that is a directory receives src under src's own name;
\* os.rename is tried first, and where it fails (the parent of the
\* destination is missing, a directory meets a file, a directory is moved
\* into itself) a directory is copied with copytree and then removed and a
\* file is copied with copy2.
shutil_move(f, src, dst) ==
    LET into == is_dir(f, dst) /\ dst # src
        real_dst == IF into THEN Append(dst, basename(src)) ELSE dst
        parent_ok == Parent(real_dst) \in DOMAIN f
                     /\ f[Parent(real_dst)].kind = "dir"
    IN  IF is_dir(f, dst) /\ dst = src THEN Done(f)
        ELSE IF into /\ exists(f, real_dst) THEN Fails(f, "shutil.Error")
        ELSE IF real_dst = src THEN Done(f)
        ELSE IF f[src].kind = "dir"
        THEN IF IsPrefix(src, real_dst) THEN Fails(f, "shutil.Error")
             ELSE IF real_dst \in DOMAIN f THEN Fails(f, "FileExistsError")
             ELSE IF parent_ok THEN Done(rename(f, src, real_dst))
             ELSE LET made == mkdir(f, real_dst, TRUE, FALSE) IN
                  IF made.exc # "" THEN made
                  ELSE Done(rename(made.fs, src, real_dst))
        ELSE IF parent_ok THEN Done(rename(f, src, real_dst))
        ELSE copy2(f, src, real_dst)

----------------------------------------------------------------------------
(* Configuration *)

DefaultMaxFileSize == 10485760

\* main(): workspace_dir = os.path.abspath(args.workspace)
StartupWorkspace == <<"/", "ws">>

InitConfig ==
    [workspace_dir |-> StartupWorkspace,
     max_file_size |-> DefaultMaxFileSize,
     enable_checksums |-> TRUE,
     auto_backup |-> TRUE]

----------------------------------------------------------------------------
(* File operations.  Each *_body is the try block of the operation: it     *)
(* returns the new file tree and the value returned or exception raised.   *)

Out(f, res) == [fs |-> f, res |-> res]

\* Path.relative_to raises ValueError where is_relative_to is false
relative_to_raises(self, other) == ~is_relative_to(self, other)

\* the size test of read_file had it been `>=`
too_large_at_limit(file_size, max_file_size) == file_size >= max_file_size

\* `file_size > config_manager.config.max_file_size`
too_large(file_size, max_file_size) == file_size > max_file_size

\* the overwrite guard had it been left out
overwrite_refused_never(f, safe_dest, overwrite) == FALSE

\* `safe_dest.exists() and not overwrite`, in copy_file and move_file
overwrite_refused(f, safe_dest, overwrite) ==
    exists(f, safe_dest) /\ ~overwrite

\* hidden entries: names that start with "."
is_hidden(name) == name = ".backups"

\* `query.lower() in item.name.lower()`, for the empty query and for
\* queries and names of one character
name_matches(query, name) == query = "" \/ query = name

list_files_body(f, cfg, directory, show_hidden) ==
    LET workspace == cfg.workspace_dir
        safe == get_safe_path(f, directory, workspace)
        safe_path == safe.path
        items == {i \in Children(f, safe_path) :
                     show_hidden \/ ~is_hidden(basename(i))}
    IN  IF safe.raised THEN Out(f, Raise("outside workspace"))
        ELSE IF ~exists(f, safe_path) THEN Out(f, Failure("does not exist"))
        ELSE IF ~is_dir(f, safe_path) THEN Out(f, Failure("is not a directory"))
        ELSE IF \E i \in items : relative_to_raises(i, workspace)
        THEN Out(f, Raise("ValueError"))
        ELSE IF \E i \in items : ~exists(f, i)
        THEN Out(f, Raise("FileNotFoundError"))
        ELSE Out(f, Success([NoPayload EXCEPT !.type = "listing",
                                              !.size = Cardinality(items)]))

read_file_body(f, cfg, file_path, encoding) ==
    LET workspace == cfg.workspace_dir
        safe == get_safe_path(f, file_path, workspace)
        safe_path == safe.path
        file_size == Len(f[safe_path].data)
        enc == IF encoding = "auto" THEN "utf-8" ELSE encoding
        decoded == decode(f[safe_path].data)
    IN  IF safe.raised THEN Out(f, Raise("outside workspace"))
        ELSE IF ~exists(f, safe_path) THEN Out(f, Failure("does not exist"))
        ELSE IF ~is_file(f, safe_path) THEN Out(f, Failure("is not a file"))
        ELSE IF too_large(file_size, cfg.max_file_size)
        THEN Out(f, Failure("File too large"))
        ELSE IF ~known_encoding(enc) THEN Out(f, Raise("LookupError"))
        ELSE IF ~decoded.ok THEN Out(f, Failure("Unable to decode"))
        ELSE Out(f, Success([content |-> universal_newlines(decoded.text),
                             type |-> "file", size |-> file_size]))

\* The parameter create_backup (a bool) hides the module's function
\* create_backup inside write_file and delete_file, so the call
\* `create_backup(str(safe_path))` calls the bool and raises TypeError.
write_file_body(f, cfg, file_path, content, encoding, create_backup) ==
    LET workspace == cfg.workspace_dir
        safe == get_safe_path(f, file_path, workspace)
        safe_path == safe.path
        made == mkdir(f, Parent(safe_path), TRUE, TRUE)
        written == Put(made.fs, safe_path,
                       FileNode(IF known_encoding(encoding)
                                THEN encode(content) ELSE <<>>))
    IN  IF safe.raised THEN Out(f, Raise("outside workspace"))
        ELSE IF exists(f, safe_path) /\ create_backup
        THEN Out(f, Raise("TypeError"))
        ELSE IF made.exc # "" THEN Out(made.fs, Raise(made.exc))
        ELSE IF is_dir(made.fs, safe_path)
        THEN Out(made.fs, Raise("IsADirectoryError"))
        ELSE IF ~known_encoding(encoding) THEN Out(written, Raise("LookupError"))
        ELSE IF relative_to_raises(safe_path, workspace)
        THEN Out(written, Raise("ValueError"))
        ELSE Out(written, Success([content |-> <<>>, type |-> "file",
                                   size |-> Len(encode(content))]))

delete_file_body(f, cfg, file_path, create_backup) ==
    LET workspace == cfg.workspace_dir
        safe == get_safe_path(f, file_path, workspace)
        safe_path == safe.path
        deleted == IF is_dir(f, safe_path) THEN rmtree(f, safe_path)
                   ELSE unlink(f, safe_path)
    IN  IF safe.raised THEN Out(f, Raise("outside workspace"))
        ELSE IF ~exists(f, safe_path) THEN Out(f, Failure("does not exist"))
        ELSE IF is_file(f, safe_path) /\ create_backup
        THEN Out(f, Raise("TypeError"))
        ELSE IF relative_to_raises(safe_path, workspace)
        THEN Out(deleted, Raise("ValueError"))
        ELSE Out(deleted,
                 Success([NoPayload EXCEPT
                     !.type = IF safe_path \in DOMAIN deleted
                                 /\ deleted[safe_path].kind = "dir"
                              THEN "directory" ELSE "file"]))

copy_file_body(f, cfg, source_path, destination_path, overwrite) ==
    LET workspace == cfg.workspace_dir
        source == get_safe_path(f, source_path, workspace)
        dest == get_safe_path(f, destination_path, workspace)
        safe_source == source.path
        safe_dest == dest.path
        made == mkdir(f, Parent(safe_dest), TRUE, TRUE)
        copied == IF is_dir(f, safe_source)
                  THEN copytree(f, safe_source, safe_dest, overwrite)
                  ELSE IF made.exc # "" THEN made
                  ELSE copy2(made.fs, safe_source, safe_dest)
    IN  IF source.raised \/ dest.raised THEN Out(f, Raise("outside workspace"))
        ELSE IF ~exists(f, safe_source) THEN Out(f, Failure("does not exist"))
        ELSE IF overwrite_refused(f, safe_dest, overwrite)
        THEN Out(f, Failure("already exists"))
        ELSE IF copied.exc # "" THEN Out(copied.fs, Raise(copied.exc))
        ELSE IF relative_to_raises(safe_source, workspace)
                \/ relative_to_raises(safe_dest, workspace)
        THEN Out(copied.fs, Raise("ValueError"))
        ELSE Out(copied.fs,
                 Success([content |-> <<>>,
                          type |-> IF is_dir(copied.fs, safe_source)
                                   THEN "directory" ELSE "file",
                          size |-> IF is_file(copied.fs, safe_source)
                                   THEN Len(copied.fs[safe_source].data)
                                   ELSE 0]))

move_file_body(f, cfg, source_path, destination_path, overwrite) ==
    LET workspace == cfg.workspace_dir
        source == get_safe_path(f, source_path, workspace)
        dest == get_safe_path(f, destination_path, workspace)
        safe_source == source.path
        safe_dest == dest.path
        moved == shutil_move(f, safe_source, safe_dest)
    IN  IF source.raised \/ dest.raised THEN Out(f, Raise("outside workspace"))
        ELSE IF ~exists(f, safe_source) THEN Out(f, Failure("does not exist"))
        ELSE IF overwrite_refused(f, safe_dest, overwrite)
        THEN Out(f, Failure("already exists"))
        ELSE IF moved.exc # "" THEN Out(moved.fs, Raise(moved.exc))
        ELSE IF relative_to_raises(safe_dest, workspace)
        THEN Out(moved.fs, Raise("ValueError"))
        ELSE Out(moved.fs,
                 Success([NoPayload EXCEPT
                     !.type = IF is_dir(moved.fs, safe_dest)
                              THEN "directory" ELSE "file"]))

create_directory_body(f, cfg, directory_path, create_parents) ==
    LET workspace == cfg.workspace_dir
        safe == get_safe_path(f, directory_path, workspace)
        safe_path == safe.path
        made == mkdir(f, safe_path, create_parents, FALSE)
    IN  IF safe.raised THEN Out(f, Raise("outside workspace"))
        ELSE IF exists(f, safe_path) THEN Out(f, Failure("already exists"))
        ELSE IF made.exc # "" THEN Out(made.fs, Raise(made.exc))
        ELSE IF relative_to_raises(safe_path, workspace)
        THEN Out(made.fs, Raise("ValueError"))
        ELSE Out(made.fs, Success([NoPayload EXCEPT !.type = "directory"]))

\* Path.rglob("*") lists what is below the directory without descending
\* into symlinked directories; item.is_file() follows a symlink.
search_files_body(f, cfg, query, directory) ==
    LET workspace == cfg.workspace_dir
        safe == get_safe_path(f, directory, workspace)
        safe_path == safe.path
        matches == {i \in Subtree(f, safe_path) \ {safe_path} :
                       is_file(f, i) /\ name_matches(query, basename(i))}
    IN  IF safe.raised THEN Out(f, Raise("outside workspace"))
        ELSE IF ~exists(f, safe_path) \/ ~is_dir(f, safe_path)
        THEN Out(f, Failure("does not exist"))
        ELSE IF \E i \in matches : relative_to_raises(i, workspace)
        THEN Out(f, Raise("ValueError"))
        ELSE Out(f, Success([NoPayload EXCEPT !.type = "matches",
                                              !.size = Cardinality(matches)]))

get_file_info_body(f, cfg, file_path) ==
    LET workspace == cfg.workspace_dir
        safe == get_safe_path(f, file_path, workspace)
        safe_path == safe.path
    IN  IF safe.raised THEN Out(f, Raise("outside workspace"))
        ELSE IF ~exists(f, safe_path) THEN Out(f, Failure("does not exist"))
        ELSE IF relative_to_raises(safe_path, workspace)
        THEN Out(f, Raise("ValueError"))
        ELSE Out(f, Success([content |-> <<>>,
                             type |-> IF is_dir(f, safe_path)
                                      THEN "directory" ELSE "file",
                             size |-> Len(f[safe_path].data)]))

\* int(max_file_size) of the string the caller passes
int_raises(s) == ~s.numeric
int(s) == s.val

\* update_config(...): an argument that is None is the empty sequence, an
\* argument that is passed is a sequence of one value.  The arguments this
\* model leaves None (debug_mode, log_level, theme, show_hidden_files,
\* enable_checksums, auto_backup) are read by no operation modelled here.
\* ConfigManager.update_config sets every key it is given.
update_config_body(cfg, workspace_dir, max_file_size) ==
    IF max_file_size # <<>> /\ int_raises(max_file_size[1])
    THEN [config |-> cfg, res |-> Raise("ValueError")]
    ELSE [config |->
            [cfg EXCEPT
               !.workspace_dir =
                   IF workspace_dir # <<>> THEN workspace_dir[1] ELSE @,
               !.max_file_size =
                   IF max_file_size # <<>> THEN int(max_file_size[1]) ELSE @],
          res |-> Success([NoPayload EXCEPT !.type = "config"])]

----------------------------------------------------------------------------
(* Inputs *)

\* path arguments: a file, a directory, an absent name, an absent name
\* under an absent directory, a file reached through the symlink that
\* leaves the workspace, and the working directory itself
PathInputs ==
    {<<"a">>, <<"d">>, <<"n">>, <<"n", "m">>, <<"l", "s">>, <<>>}

ContentInputs == {<<"e_acute", "x">>, <<"x", "CR">>}

ReadEncodingInputs == {"utf-8", "auto", "bogus"}

WriteEncodingInputs == {"utf-8"}

ShowHiddenInputs == {FALSE}

QueryInputs == {""}

\* workspace_dir values given to update_config: the startup value, the
\* Config default ".", and a directory outside the startup workspace
WorkspaceInputs == {StartupWorkspace, <<>>, <<"/", "out">>}

\* max_file_size strings given to update_config: "1", "2" and a string
\* that is not a number
SizeInputs ==
    {[numeric |-> TRUE, val |-> 1], [numeric |-> TRUE, val |-> 2],
     [numeric |-> FALSE, val |-> 0]}

Optional(S) == {<<>>} \cup {<<v>> : v \in S}

----------------------------------------------------------------------------
(* The state machine: one call at a time, each made from the idle state.   *)

NoUpdates == [workspace_dir |-> <<>>, max_file_size |-> <<>>]

NoCall ==
    [op |-> "idle", path |-> <<>>, dest |-> <<>>, content |-> <<>>,
     encoding |-> "", flag |-> FALSE, updates |-> NoUpdates]

NoResult == [kind |-> "none", err |-> ""] @@ NoPayload

\* no call is running in a second thread
NoThread == [pc |-> "idle"]

\* the push-channel peers that may connect
PushClients == {"c1", "c2", "c3"}

\* the notification server before any peer has connected: the client
\* registry, the peers whose connection has closed, what each peer has
\* received, the events broadcast so far and whether a broadcast raised
NoClients ==
    [registry |-> {}, closed |-> {},
     delivered |-> [c \in PushClients |-> <<>>],
     sent |-> <<>>, raised |-> FALSE]

Init ==
    /\ fs = InitFs
    /\ config = InitConfig
    /\ call = NoCall
    /\ result = NoResult
    /\ pre = InitFs
    /\ steps = 0
    /\ clock = 0
    /\ inflight = NoThread
    /\ notify = NoClients

\* a file operation runs from call to return: its try block, then its
\* exception handler
Run(c, out) ==
    /\ call.op = "idle"
    /\ steps < MaxSteps
    /\ call' = c
    /\ result' = Catch(out.res)
    /\ fs' = out.fs
    /\ pre' = fs
    /\ steps' = steps + 1
    /\ UNCHANGED <<config, others>>

list_files(directory, show_hidden) ==
    Run([NoCall EXCEPT !.op = "list_files", !.path = directory,
                       !.flag = show_hidden],
        list_files_body(fs, config, directory, show_hidden))

read_file(file_path, encoding) ==
    Run([NoCall EXCEPT !.op = "read_file", !.path = file_path,
                       !.encoding = encoding],
        read_file_body(fs, config, file_path, encoding))

write_file(file_path, content, encoding, create_backup) ==
    Run([NoCall EXCEPT !.op = "write_file", !.path = file_path,
                       !.content = content, !.encoding = encoding,
                       !.flag = create_backup],
        write_file_body(fs, config, file_path, content, encoding,
                        create_backup))

delete_file(file_path, create_backup) ==
    Run([NoCall EXCEPT !.op = "delete_file", !.path = file_path,
                       !.flag = create_backup],
        delete_file_body(fs, config, file_path, create_backup))

copy_file(source_path, destination_path, overwrite) ==
    Run([NoCall EXCEPT !.op = "copy_file", !.path = source_path,
                       !.dest = destination_path, !.flag = overwrite],
        copy_file_body(fs, config, source_path, destination_path, overwrite))

move_file(source_path, destination_path, overwrite) ==
    Run([NoCall EXCEPT !.op = "move_file", !.path = source_path,
                       !.dest = destination_path, !.flag = overwrite],
        move_file_body(fs, config, source_path, destination_path, overwrite))

create_directory(directory_path, create_parents) ==
    Run([NoCall EXCEPT !.op = "create_directory", !.path = directory_path,
                       !.flag = create_parents],
        create_directory_body(fs, config, directory_path, create_parents))

search_files(query, directory) ==
    Run([NoCall EXCEPT !.op = "search_files", !.path = directory],
        search_files_body(fs, config, query, directory))

get_file_info(file_path) ==
    Run([NoCall EXCEPT !.op = "get_file_info", !.path = file_path],
        get_file_info_body(fs, config, file_path))

update_config(workspace_dir, max_file_size) ==
    LET out == update_config_body(config, workspace_dir, max_file_size) IN
    /\ call.op = "idle"
    /\ steps < MaxSteps
    /\ call' = [NoCall EXCEPT !.op = "update_config",
                   !.updates = [workspace_dir |-> workspace_dir,
                                max_file_size |-> max_file_size]]
    /\ result' = Catch(out.res)
    /\ config' = out.config
    /\ pre' = fs
    /\ steps' = steps + 1
    /\ UNCHANGED <<fs, others>>

\* the result has gone back to the caller and the next call can be made
Return ==
    /\ call.op # "idle"
    /\ call' = NoCall
    /\ result' = NoResult
    /\ pre' = fs
    /\ UNCHANGED <<fs, config, steps, others>>

\* copy_file of a directory to a place inside that directory: copytree
\* reads its own output while it writes it, so what is copied depends on
\* the order in which the directory is listed, and below a subdirectory
\* the copy descends until the path is too long.  The model leaves out the
\* calls that reach copytree with such a pair.
CopyOverlaps(source_path, destination_path, overwrite) ==
    LET s == resolve(fs, source_path)
        d == resolve(fs, destination_path)
    IN  /\ is_safe_path(fs, source_path, config.workspace_dir)
        /\ is_safe_path(fs, destination_path, config.workspace_dir)
        /\ is_dir(fs, s) /\ IsPrefix(s, d) /\ d # s
        /\ (overwrite \/ ~exists(fs, d))

Next ==
    \/ \E p \in PathInputs, h \in ShowHiddenInputs : list_files(p, h)
    \/ \E p \in PathInputs, e \in ReadEncodingInputs : read_file(p, e)
    \/ \E p \in PathInputs, c \in ContentInputs, e \in WriteEncodingInputs,
          b \in BOOLEAN : write_file(p, c, e, b)
    \/ \E p \in PathInputs, b \in BOOLEAN : delete_file(p, b)
    \/ \E p \in PathInputs, q \in PathInputs, o \in BOOLEAN :
          ~CopyOverlaps(p, q, o) /\ copy_file(p, q, o)
    \/ \E p \in PathInputs, q \in PathInputs, o \in BOOLEAN : move_file(p, q, o)
    \/ \E p \in PathInputs, b \in BOOLEAN : create_directory(p, b)
    \/ \E q \in QueryInputs, p \in PathInputs : search_files(q, p)
    \/ \E p \in PathInputs : get_file_info(p)
    \/ \E w \in Optional(WorkspaceInputs), m \in Optional(SizeInputs) :
          update_config(w, m)
    \/ Return

Spec == Init /\ [][Next]_vars

----------------------------------------------------------------------------
(* Vocabulary of the properties *)

FileOperations ==
    {"list_files", "read_file", "write_file", "delete_file", "copy_file",
     "move_file", "create_directory", "search_files", "get_file_info"}

\* whether a path argument of the last call resolved inside the workspace
\* when the call began (no file operation changes the configuration)
SafeAtCall(p) == is_safe_path(pre, p, config.workspace_dir)

\* where a path argument of the last call pointed when the call began
Target(p) == resolve(pre, p)

\* every path argument of the last call
PathArguments ==
    IF call.op \in {"copy_file", "move_file"} THEN {call.path, call.dest}
    ELSE {call.path}

\* candidate paths and workspace roots for the path guard: the inputs of
\* the operations and further spellings with "..", the symlink and
\* absolute paths
CandidatePaths ==
    PathInputs \cup
    {<<"l">>, <<"..", "out", "s">>, <<"d", "..", "a">>, <<"l", "..", "ws", "a">>,
     <<"/", "out", "s">>, <<"/", "ws", "a">>, <<"/", "ws", "l", "s">>,
     <<"/", "ws", "d", "..", "..", "out">>, <<"/", "ws">>, <<"/">>}

CandidateRoots ==
    WorkspaceInputs \cup {<<"/", "ws", "d", "..">>, <<"/", "ws", "l">>}

\* q is p or lies below p
AtOrBelow(q, p) == \E k \in 0..Len(q) : SubSeq(q, 1, k) = p

----------------------------------------------------------------------------
(* C1 *)

\* C1: for every candidate path and workspace root, the path guard accepts
\* the path exactly when its canonical form (symlinks and ".." resolved) is
\* the canonical root or lies below it; a symlink that sits inside the root
\* and points outside it is rejected, and so is everything reached
\* through it.
C1_PathGuard ==
    /\ \A p \in CandidatePaths, w \in CandidateRoots :
          /\ is_safe_path(fs, p, w) <=>
                /\ ~resolve_raises(fs, p) /\ ~resolve_raises(fs, w)
                /\ AtOrBelow(resolve(fs, p), resolve(fs, w))
          /\ get_safe_path(fs, p, w).raised <=> ~is_safe_path(fs, p, w)
          /\ ~get_safe_path(fs, p, w).raised =>
                get_safe_path(fs, p, w).path = resolve(fs, p)
    /\ \A w \in CandidateRoots, l \in DOMAIN fs :
          (/\ ~resolve_raises(fs, w)
           /\ fs[l].kind = "link"
           /\ AtOrBelow(Front(l), resolve(fs, w))
           /\ ~AtOrBelow(resolve(fs, fs[l].target), resolve(fs, w)))
          => /\ ~is_safe_path(fs, l, w)
             /\ \A c \in {"s", "a"} : ~is_safe_path(fs, Append(l, c), w)

\* C1 witness: a call whose path goes through the symlink inside the
\* workspace was refused as outside the workspace.
C1_Witness ==
    /\ call.op = "read_file" /\ call.path = <<"l", "s">>
    /\ <<"/", "ws", "l">> \in DOMAIN pre
    /\ pre[<<"/", "ws", "l">>].kind = "link"
    /\ config.workspace_dir = StartupWorkspace
    /\ result.kind = "error" /\ result.err = "outside workspace"

----------------------------------------------------------------------------
(* C2 *)

\* C2: when a path argument of a file operation resolves outside the
\* workspace root, the call returns an error result and the file tree is
\* as it was before the call; for copy_file and move_file either argument
\* being outside is enough.
C2_OutsideLeavesTreeAlone ==
    (call.op \in FileOperations /\ \E p \in PathArguments : ~SafeAtCall(p))
    => (result.kind = "error" /\ fs = pre)

\* C2 witness: a move whose source is an existing file inside the
\* workspace and whose destination is outside it was refused.
C2_Witness ==
    /\ call.op = "move_file"
    /\ SafeAtCall(call.path) /\ is_file(pre, Target(call.path))
    /\ ~SafeAtCall(call.dest)
    /\ result.kind = "error" /\ fs = pre

----------------------------------------------------------------------------
(* C3 *)

\* what read_file(path, encoding) returns in the current state
ReadBack(path, encoding) ==
    Catch(read_file_body(fs, config, path, encoding).res)

HasCR(text) == \E i \in 1..Len(text) : text[i] = "CR"

\* C3: after write_file(path, content) with its default arguments
\* (encoding "utf-8", create_backup True) on a path inside the workspace
\* that is not a directory and whose parent directory exists, whether or
\* not a file was there, read_file of the same path with the same
\* encoding returns exactly content.  (Stated
\* for content that fits max_file_size and holds no carriage return, which
\* reading in text mode would turn into a line feed.)
C3_RoundTrip ==
    (/\ call.op = "write_file"
     /\ call.flag /\ call.encoding = "utf-8"
     /\ SafeAtCall(call.path)
     /\ ~is_dir(pre, Target(call.path))
     /\ Parent(Target(call.path)) \in DOMAIN pre
     /\ Len(encode(call.content)) <= config.max_file_size
     /\ ~HasCR(call.content))
    => (/\ ReadBack(call.path, call.encoding).kind = "success"
        /\ ReadBack(call.path, call.encoding).content = call.content)

----------------------------------------------------------------------------
(* C4 *)

\* C4: delete_file takes no confirmation, so no delete request carries one:
\* a delete_file call on an existing path inside the workspace returns a
\* "confirmation required" result, which is not an error, and leaves the
\* file tree as it was.
C4_DeleteNeedsConfirmation ==
    (/\ call.op = "delete_file"
     /\ SafeAtCall(call.path)
     /\ exists(pre, Target(call.path)))
    => (result.kind = "confirmation required" /\ fs = pre)

----------------------------------------------------------------------------
(* C5 *)

\* Config.backup_dir, a path relative to the working directory
backup_dir == <<".backups">>

\* the regular files under the backup directory that the last call added
NewBackups ==
    {q \in DOMAIN fs \ DOMAIN pre :
        /\ AtOrBelow(q, resolve(fs, backup_dir))
        /\ fs[q].kind = "file"}

\* C5: with auto_backup true and the create_backup argument true,
\* delete_file of an existing regular file inside the workspace removes the
\* file and leaves exactly one new file under the backup directory, whose
\* content is the bytes the deleted file had.
C5_DeleteLeavesBackup ==
    (/\ call.op = "delete_file" /\ call.flag
     /\ config.auto_backup
     /\ SafeAtCall(call.path)
     /\ is_file(pre, Target(call.path)))
    => (/\ Target(call.path) \notin DOMAIN fs
        /\ Cardinality(NewBackups) = 1
        /\ \A q \in NewBackups : fs[q].data = pre[Target(call.path)].data)

----------------------------------------------------------------------------
(* C6 *)

\* C6: move_file and copy_file with overwrite false, a source that exists
\* and a destination that already exists (both inside the workspace) return
\* the "already exists" error and leave the file tree, so the source and
\* the destination, as they were.
C6_OverwriteGuard ==
    (/\ call.op \in {"move_file", "copy_file"}
     /\ ~call.flag
     /\ SafeAtCall(call.path) /\ SafeAtCall(call.dest)
     /\ exists(pre, Target(call.path))
     /\ exists(pre, Target(call.dest)))
    => (/\ result.kind = "error" /\ result.err = "already exists"
        /\ fs = pre)

\* C6 witness: a move of an existing file onto another existing entry,
\* without overwrite, was refused.
C6_Witness ==
    /\ call.op = "move_file" /\ ~call.flag
    /\ SafeAtCall(call.path) /\ SafeAtCall(call.dest)
    /\ is_file(pre, Target(call.path))
    /\ exists(pre, Target(call.dest))
    /\ Target(call.dest) # Target(call.path)
    /\ result.err = "already exists"
    /\ fs = pre

----------------------------------------------------------------------------
(* C7 *)

\* C7: create_directory(path, create_parents=False) on an absent path
\* inside the workspace (its parent directory being there) succeeds and
\* leaves a directory at the path, and a create_directory call on a path
\* that already exists, as the second of two calls in a row finds it,
\* fails with "already exists": success is never reported twice.
C7_CreateDirectoryOnceOnly ==
    /\ (/\ call.op = "create_directory" /\ ~call.flag
        /\ SafeAtCall(call.path)
        /\ ~exists(pre, Target(call.path))
        /\ is_dir(pre, Parent(Target(call.path))))
       => (/\ result.kind = "success"
           /\ is_dir(fs, Target(call.path)))
    /\ (/\ call.op = "create_directory" /\ ~call.flag
        /\ SafeAtCall(call.path)
        /\ exists(pre, Target(call.path)))
       => (result.kind = "error" /\ result.err = "already exists")

----------------------------------------------------------------------------
(* C8 *)

\* C8: read_file of a regular file inside the workspace whose size in
\* bytes equals max_file_size succeeds (the bytes being text in the
\* requested encoding), and of a file one byte larger fails with the
\* too-large error; the sizes compared are byte counts, not character
\* counts.
C8_SizeLimitBoundary ==
    (/\ call.op = "read_file"
     /\ SafeAtCall(call.path)
     /\ is_file(pre, Target(call.path)))
    => LET bytes == pre[Target(call.path)].data IN
       /\ (/\ Len(bytes) = config.max_file_size
           /\ call.encoding \in {"utf-8", "auto"}
           /\ decode(bytes).ok)
          => (result.kind = "success" /\ result.size = Len(bytes))
       /\ Len(bytes) = config.max_file_size + 1
          => (result.kind = "error" /\ result.err = "File too large")

\* C8 witness: a file of two bytes and one character was read with
\* max_file_size at two.
C8_Witness ==
    /\ call.op = "read_file"
    /\ SafeAtCall(call.path) /\ is_file(pre, Target(call.path))
    /\ Len(pre[Target(call.path)].data) = config.max_file_size
    /\ Len(result.content) < config.max_file_size
    /\ result.kind = "success"

----------------------------------------------------------------------------
(* C9 *)

\* C9: no file operation lets an exception reach its caller: whatever the
\* arguments and the file tree, what comes back is a result that is either
\* a success payload or an error string.
C9_NothingEscapes ==
    call.op \in FileOperations => result.kind \in {"success", "error"}

\* C9 witness: move_file met an exception of shutil.move and returned it as
\* an error result.
C9_Witness ==
    /\ call.op = "move_file"
    /\ result.kind = "error" /\ result.err = "shutil.Error"

----------------------------------------------------------------------------
(* C10 *)

\* absolute, symlink-free spellings of places outside the startup root
OutsideAtStartup ==
    {p \in CandidatePaths :
        /\ IsAbs(p) /\ resolve(InitFs, p) = p
        /\ ~is_safe_path(InitFs, p, StartupWorkspace)}

\* C10: the workspace root is the one set at startup in every later state,
\* whatever calls were made (update_config among them): the directory that
\* config.workspace_dir resolves to is the startup root, and a place that
\* was refused as outside the root at startup is refused in every later
\* state.
C10_RootImmutable ==
    /\ ~resolve_raises(fs, config.workspace_dir)
          => resolve(fs, config.workspace_dir)
                = resolve(InitFs, StartupWorkspace)
    /\ \A p \in OutsideAtStartup :
          ~is_safe_path(fs, p, config.workspace_dir)

----------------------------------------------------------------------------
(* Backups: create_backup called as the module's function, with the wall   *)
(* clock.  write_file and delete_file never reach it (their bool parameter *)
(* hides it), so its callers here are callers of the function itself.      *)

MaxClock == 2

\* f"{Path(file_path).name}_{timestamp}" under backup_dir
backup_path(file_path, timestamp) ==
    Append(backup_dir, basename(file_path) \o "_" \o ToString(timestamp))

\* create_backup(file_path) at time now: the new tree and the path
\* returned (<<>> for None)
create_backup_body(f, cfg, now, file_path) ==
    LET made == mkdir(f, resolve(f, backup_dir), FALSE, TRUE)
        to == backup_path(file_path, now)
        copied == copy2(made.fs, file_path, to)
    IN  IF ~cfg.auto_backup THEN [fs |-> f, path |-> <<>>]
        ELSE IF made.exc # "" THEN [fs |-> made.fs, path |-> <<>>]
        ELSE IF ~is_file(made.fs, resolve(made.fs, file_path))
        THEN [fs |-> made.fs, path |-> <<>>]
        ELSE IF copied.exc # "" THEN [fs |-> copied.fs, path |-> <<>>]
        ELSE [fs |-> copied.fs, path |-> to]

create_backup(file_path) ==
    LET out == create_backup_body(fs, config, clock, file_path) IN
    /\ call.op = "idle"
    /\ steps < MaxSteps
    /\ call' = [NoCall EXCEPT !.op = "create_backup", !.path = file_path]
    /\ result' = [NoResult EXCEPT !.kind = IF out.path = <<>> THEN "None"
                                           ELSE "path"]
    /\ fs' = out.fs
    /\ pre' = fs
    /\ steps' = steps + 1
    /\ UNCHANGED <<config, others>>

\* a second of wall-clock time passes
Tick ==
    /\ clock < MaxClock
    /\ clock' = clock + 1
    /\ UNCHANGED <<fs, config, call, result, pre, steps, inflight, notify>>

\* files to back up: two of them have the same name
BackupTargets == {<<"a">>, <<"d", "a">>, <<"d", "b">>}

BackupNext ==
    \/ \E p \in BackupTargets : create_backup(p)
    \/ \E p \in BackupTargets, c \in ContentInputs, e \in WriteEncodingInputs :
          write_file(p, c, e, FALSE)
    \/ Tick
    \/ Return

BackupSpec == Init /\ [][BackupNext]_vars

\* C11: a create_backup call that returns a backup path has written a
\* path that held no earlier backup, so two calls on targets of the same
\* name never return the same path, and every backup that was there before
\* the call is still there with the bytes it had.
C11_BackupNamesNeverCollide ==
    (call.op = "create_backup" /\ result.kind = "path")
    => /\ resolve(pre, backup_path(call.path, clock)) \notin DOMAIN pre
       /\ \A q \in DOMAIN pre :
             (AtOrBelow(q, resolve(pre, backup_dir)) /\ pre[q].kind = "file")
             => (q \in DOMAIN fs /\ fs[q] = pre[q])

----------------------------------------------------------------------------
(* Concurrency: the interface runs each handler in a worker thread, so a   *)
(* read_file call can be in flight while update_config runs.  The call     *)
(* reads config.workspace_dir into a local when it starts (line 182) and   *)
(* reads config.max_file_size when it compares the size (line 192).        *)

\* read_file, lines 181-182: the call starts and reads the workspace root
read_file_enter(file_path, encoding) ==
    /\ inflight.pc = "idle"
    /\ inflight' = [pc |-> "line183", file_path |-> file_path,
                    encoding |-> encoding,
                    workspace |-> config.workspace_dir,
                    began |-> config, res |-> NoResult]
    /\ UNCHANGED <<fs, config, call, result, pre, steps, clock, notify>>

\* read_file, lines 183-220: the rest of the call, with the local
\* workspace and the configuration as it is now
read_file_rest ==
    /\ inflight.pc = "line183"
    /\ inflight' =
          [inflight EXCEPT
             !.pc = "returned",
             !.res = Catch(read_file_body(
                               fs,
                               [config EXCEPT
                                  !.workspace_dir = inflight.workspace],
                               inflight.file_path, inflight.encoding).res)]
    /\ UNCHANGED <<fs, config, call, result, pre, steps, clock, notify>>

\* the worker thread hands the result to its caller
read_file_exit ==
    /\ inflight.pc = "returned"
    /\ inflight' = NoThread
    /\ UNCHANGED <<fs, config, call, result, pre, steps, clock, notify>>

ConcurrentNext ==
    \/ \E p \in PathInputs, e \in ReadEncodingInputs : read_file_enter(p, e)
    \/ read_file_rest
    \/ read_file_exit
    \/ \E w \in Optional(WorkspaceInputs), m \in Optional(SizeInputs) :
          update_config(w, m)
    \/ Return

ConcurrentSpec == Init /\ [][ConcurrentNext]_vars

\* C12: a read_file call that was in flight while the configuration was
\* updated returns what it would have returned with the configuration
\* (workspace root, max_file_size) as it was when the call began.
C12_SnapshotAtCall ==
    inflight.pc = "returned"
    => inflight.res = Catch(read_file_body(fs, inflight.began,
                                           inflight.file_path,
                                           inflight.encoding).res)

----------------------------------------------------------------------------
(* The notification server: push clients, their registry and broadcast.    *)
(* main() only launches the server (lines 813-821); the registry and       *)
(* broadcast are modelled from the specification's NotificationServer.     *)

MaxBroadcasts == 2

Events == {"written", "deleted"}

\* a broadcast that stops at the first delivery that fails and lets the
\* failure reach its caller
broadcast_aborting(n, event) ==
    IF n.registry \cap n.closed # {}
    THEN [n EXCEPT !.sent = Append(@, event), !.raised = TRUE]
    ELSE [n EXCEPT !.sent = Append(@, event),
                   !.delivered = [c \in PushClients |->
                                     IF c \in n.registry THEN Append(@[c], event)
                                     ELSE @[c]]]

\* broadcast(event): a send to every registered client; a client whose
\* send fails (its connection has closed) is removed from the registry,
\* the others receive the event, and nothing is raised
broadcast_body(n, event) ==
    [n EXCEPT !.sent = Append(@, event),
              !.delivered = [c \in PushClients |->
                                IF c \in n.registry \ n.closed
                                THEN Append(@[c], event) ELSE @[c]],
              !.registry = @ \ n.closed]

\* the push-channel listener accepts a peer and registers it
register(c) ==
    /\ c \notin notify.registry /\ c \notin notify.closed
    /\ notify' = [notify EXCEPT !.registry = @ \cup {c}]
    /\ UNCHANGED <<fs, config, call, result, pre, steps, clock, inflight>>

\* a registered peer's connection closes abruptly: the server has not
\* noticed, and the peer is still in the registry
close_abruptly(c) ==
    /\ c \in notify.registry /\ c \notin notify.closed
    /\ notify' = [notify EXCEPT !.closed = @ \cup {c}]
    /\ UNCHANGED <<fs, config, call, result, pre, steps, clock, inflight>>

broadcast(event) ==
    /\ Len(notify.sent) < MaxBroadcasts
    /\ notify' = broadcast_body(notify, event)
    /\ UNCHANGED <<fs, config, call, result, pre, steps, clock, inflight>>

BroadcastNext ==
    \/ \E c \in PushClients : register(c)
    \/ \E c \in PushClients : close_abruptly(c)
    \/ \E e \in Events : broadcast(e)

BroadcastSpec == Init /\ [][BroadcastNext]_vars

\* C13: a broadcast made while some registered clients are dead (three
\* registered and one closed abruptly among the cases) delivers the event
\* to every live registered client, removes the dead ones from the
\* registry and leaves the live ones in it, delivers nothing to the dead
\* ones, and raises nothing to its caller.
C13_BroadcastDropsDeadClient ==
    [][notify'.sent # notify.sent =>
         LET event == notify'.sent[Len(notify'.sent)]
             live == notify.registry \ notify.closed
         IN  /\ \A c \in live :
                   notify'.delivered[c] = Append(notify.delivered[c], event)
             /\ \A c \in PushClients \ live :
                   notify'.delivered[c] = notify.delivered[c]
             /\ notify'.registry = live
             /\ ~notify'.raised]_vars

\* C13 witness: three clients registered, one closed abruptly, and one
\* broadcast made: the two live clients hold the event and are the
\* registry, the dead one holds nothing.
C13_Witness ==
    /\ Len(notify.sent) = 1
    /\ Cardinality(notify.closed) = 1
    /\ Cardinality(notify.registry) = 2
    /\ notify.registry \cup notify.closed = PushClients
    /\ \A c \in notify.registry : notify.delivered[c] = notify.sent
    /\ \A c \in notify.closed : notify.delivered[c] = <<>>
    /\ ~notify.raised

----------------------------------------------------------------------------
(* C14 - C17, on the single-threaded interface (Spec) *)

\* what the tree f holds at p: the node at p and, below a directory, every
\* entry by its path relative to p
HeldAt(f, p) ==
    {<<SubSeq(q, Len(p) + 1, Len(q)), f[q]>> : q \in Subtree(f, p)}

\* C14: when move_file(source, dest, overwrite=True) succeeds and dest
\* existed before the call (a file or a directory, and not the source
\* itself), the source is gone and the path dest holds exactly what the
\* source held: not what dest held before, and not the source nested as
\* dest/<source name>.
C14_MoveReplacesDestination ==
    (/\ call.op = "move_file" /\ call.flag
     /\ result.kind = "success"
     /\ exists(pre, Target(call.dest))
     /\ Target(call.dest) # Target(call.path))
    => /\ ~exists(fs, Target(call.path))
       /\ HeldAt(fs, Target(call.dest)) = HeldAt(pre, Target(call.path))

MutatingOperations ==
    {"write_file", "delete_file", "copy_file", "move_file",
     "create_directory"}

\* C15: a mutating operation (write_file, delete_file, copy_file,
\* move_file, create_directory) that returns an error result has left the
\* file tree as it was before the call, whatever workspace_dir is
\* configured, the relative "." included.
C15_ErrorLeavesTreeAlone ==
    (call.op \in MutatingOperations /\ result.kind = "error") => fs = pre

\* C16: a delete_file call that succeeds reports the kind of what it
\* deleted: type "directory" when the path was a directory before the call
\* and "file" when it was a regular file.
C16_DeleteReportsKind ==
    (call.op = "delete_file" /\ result.kind = "success")
    => result.type = (IF is_dir(pre, Target(call.path))
                      THEN "directory" ELSE "file")

\* the directory that was the workspace root when the last call began
RootAtCall == resolve(pre, config.workspace_dir)

\* C17: the workspace root directory is still there after every
\* delete_file and move_file call, also when the path given resolves to
\* the root itself.
C17_RootSurvives ==
    (/\ call.op \in {"delete_file", "move_file"}
     /\ ~resolve_raises(pre, config.workspace_dir)
     /\ is_dir(pre, RootAtCall))
    => is_dir(fs, RootAtCall)

====
